---------------------------- MODULE Spec2Model ----------------------------
(***************************************************************************)
(* ViperSSH: the navigation state of ViperApp (src/viper.py) over the      *)
(* catalogue of Config (src/config.py).                                    *)
(*                                                                         *)
(* Strings whose characters matter (host names, targets, suffixes, the     *)
(* text of the search box) are sequences of one-character strings, so that *)
(* lower(), "in" and concatenation are computed, not assumed.  Environment *)
(* identifiers are plain strings ordered by EnvRank.                       *)
(*                                                                         *)
(* Widgets are modelled by the fields the code reads and writes:           *)
(*   ListView  : its children and its index (None or a row),               *)
(*   Input     : its value,                                                *)
(*   focus     : the one widget for which has_focus is true.               *)
(* Library behaviour relied on:                                            *)
(*   - every assignment to ListView.index is validated (None on an empty   *)
(*     list, clamped otherwise); an assignment that changes the index      *)
(*     posts ListView.Highlighted; one that leaves it unchanged posts it   *)
(*     only when the installed ListView declares index with                *)
(*     always_update, which depends on the library version: both are       *)
(*     modelled (variable always_update, fixed for a run);                 *)
(*   - ListView.clear() removes the children and sets index to None;       *)
(*   - an assignment that changes Input.value posts Input.Changed;         *)
(*   - call_later(f) queues f; it runs after the handler has returned;     *)
(*   - when the screen comes up and nothing has focus, Screen.AUTO_FOCUS   *)
(*     gives the focus to the first focusable widget, which is #env-list.  *)
(* A message posted by a handler (Highlighted, Changed) is handled inside  *)
(* the action of that handler; a call_later callback is an entry of the    *)
(* queue `pending`, run by RunCallback.                                    *)
(*                                                                         *)
(* Five specifications:                                                    *)
(*   Spec        : one run of the program, from on_mount to the end of     *)
(*                 main, each key handled after the callbacks of the key   *)
(*                 before it have run;                                     *)
(*   TypeAheadSpec : the same run with keys typed ahead, handled while     *)
(*                 callbacks of an earlier key still wait;                 *)
(*   ReconnectSpec : a run in which the history screen is opened over the  *)
(*                 environment list;                                       *)
(*   CatalogSpec : a Config object called directly, over a configuration   *)
(*                 directory that may be edited while the object lives;    *)
(*   HistorySpec : one history log over successive connections.            *)
(***************************************************************************)
EXTENDS Integers, Sequences, FiniteSets, TLC

\* ------------------------------------------------------------------ bounds

\* Longest text the user types into the search box.
MaxQuery == 2

\* Entries the history file may already hold when the program starts.
MaxOldHistory == 1

\* Connections made one after the other over the life of a history file.
MaxAdds == 12

\* How many of them repeat an earlier connection.
MaxReAdds == 2

\* Callbacks that may be waiting when a key typed ahead is handled.
MaxAhead == 1

\* ------------------------------------------------------------- primitives

\* Python's None for an index (ListView.index, a row).
None == -1

\* Python's None for selected_env and for "no environment".
NoEnv == "None"

Min(a, b) == IF a < b THEN a ELSE b

Max(a, b) == IF a < b THEN b ELSE a

\* str.lower() on one character, over the characters the model uses.
LowerChar(c) ==
  CASE c = "D" -> "d"
    [] c = "B" -> "b"
    [] c = "W" -> "w"
    [] OTHER -> c

\* str.lower()
Lower(s) == [i \in 1..Len(s) |-> LowerChar(s[i])]

\* Python's `q in s` on strings: q occurs in s as a contiguous substring.
StrIn(q, s) ==
  \E i \in 0..(Len(s) - Len(q)) : SubSeq(s, i + 1, i + Len(q)) = q

\* Python's `c in s` for a single character c.
CharIn(c, s) == \E i \in 1..Len(s) : s[i] = c

\* HostInfo: the (display_name, target) pair the views read.
HostInfo(d, t) == [display_name |-> d, target |-> t]

\* ConnectionRequest(target, proto)
ConnectionRequest(t, p) == [target |-> t, proto |-> p]

\* app.run() returned no result.
NoResult == [target |-> <<>>, proto |-> "none"]

\* No call was made on the catalogue yet.
NoCall == [op |-> "none", env |-> "None", arg |-> <<>>, value |-> <<>>]

\* -------------------------------------------------- configuration sources

\* The environment identifiers of the model and their lexical order.
EnvIds == {"dev", "prod", "staging"}

EnvRank(e) ==
  CASE e = "dev" -> 1
    [] e = "prod" -> 2
    [] e = "staging" -> 3

StagingHosts ==
  << HostInfo(<<"w","e","b","1">>, <<"w","e","b","1">>),
     HostInfo(<<"w","e","b","2">>, <<"w","e","b","2">>),
     HostInfo(<<"d","b","1">>, <<"d","b","1">>) >>

ProdHosts ==
  << HostInfo(<<"D","B">>, <<"d","b","9">>),
     HostInfo(<<"a","p","p">>, <<"d","b",".","x">>),
     HostInfo(<<"w","e","b">>, <<"u","@","w">>),
     HostInfo(<<"b","d">>, <<"b","d">>) >>

\* A complete configuration directory: suffixes.conf and three host files,
\* one of them empty.
GoodSource ==
  [ suffixes_exists |-> TRUE,
    suffix_lines |-> [e \in {"prod", "staging"} |->
                        IF e = "prod" THEN <<".","p">>
                        ELSE <<"-","s","t","g",".","i","n","t","e","r","n","a","l">>],
    dir_exists |-> TRUE,
    host_files |-> [e \in EnvIds |->
                      CASE e = "dev" -> <<>>
                        [] e = "prod" -> ProdHosts
                        [] e = "staging" -> StagingHosts] ]

\* suffixes.conf is missing.
NoSuffixSource == [GoodSource EXCEPT !.suffixes_exists = FALSE]

\* The host_list directory holds no *.hosts file.
NoHostsSource ==
  [GoodSource EXCEPT !.host_files = [e \in {} |-> <<>>],
                     !.suffix_lines = [e \in {} |-> <<>>]]

\* The host_list directory is missing.
NoDirSource ==
  [GoodSource EXCEPT !.dir_exists = FALSE,
                     !.host_files = [e \in {} |-> <<>>]]

Sources == {GoodSource, NoSuffixSource, NoHostsSource, NoDirSource}

\* ------------------------------------------------------------------ Config

\* sorted(stems): the sequence of the elements of S in EnvRank order.
RECURSIVE Sorted(_)
Sorted(S) ==
  IF S = {} THEN <<>>
  ELSE LET m == CHOOSE x \in S : \A y \in S : EnvRank(x) <= EnvRank(y)
       IN <<m>> \o Sorted(S \ {m})

\* Mutant of LoadOk: a host_list directory without *.hosts files is accepted.
LoadOk_allows_empty(src) ==
  /\ src.suffixes_exists
  /\ src.dir_exists

\* Config.load succeeds on this source.
LoadOk(src) ==
  /\ src.suffixes_exists
  /\ src.dir_exists
  /\ DOMAIN src.host_files # {}

\* Config._discover_environments: the sorted stems of the *.hosts files.
DiscoverEnvironments(src) == Sorted(DOMAIN src.host_files)

\* Config.get_suffix
get_suffix(sfx, environment) ==
  IF environment \in DOMAIN sfx THEN sfx[environment] ELSE <<>>

\* Config.get_hosts: the value returned.
get_hosts(src, cache, environment) ==
  IF environment \in DOMAIN cache THEN cache[environment]
  ELSE IF environment \notin DOMAIN src.host_files THEN <<>>
  ELSE src.host_files[environment]

\* Mutant of cache_after: the empty result for a missing host file is cached.
cache_after_caches_missing(src, cache, environment) ==
  IF environment \in DOMAIN cache THEN cache
  ELSE [e \in (DOMAIN cache) \cup {environment} |->
          IF e # environment THEN cache[e]
          ELSE IF environment \in DOMAIN src.host_files
               THEN src.host_files[environment] ELSE <<>>]

\* Config.get_hosts: the cache it leaves behind.
cache_after(src, cache, environment) ==
  IF environment \in DOMAIN cache THEN cache
  ELSE IF environment \notin DOMAIN src.host_files THEN cache
  ELSE [e \in (DOMAIN cache) \cup {environment} |->
          IF e = environment THEN src.host_files[environment] ELSE cache[e]]

\* Mutant of build_target: a user-qualified name (with "@") gets the suffix too.
build_target_dot_only(sfx, environment, hostname) ==
  IF CharIn(".", hostname) THEN hostname
  ELSE hostname \o get_suffix(sfx, environment)

\* Config.build_target
build_target(sfx, environment, hostname) ==
  IF CharIn(".", hostname) \/ CharIn("@", hostname) THEN hostname
  ELSE hostname \o get_suffix(sfx, environment)


\* ----------------------------------------------------------------- History

\* History keeps the N most recent entries.
HistoryMax == 10

\* Mutant of HistoryAdd: an earlier entry for the same pair is kept.
HistoryAdd_keeps_earlier(log, target, proto) ==
  LET entry == [target |-> target, proto |-> proto]
      all == <<entry>> \o log
  IN SubSeq(all, 1, Min(Len(all), HistoryMax))

\* Mutant of HistoryAdd: the log is never cut.
HistoryAdd_unbounded(log, target, proto) ==
  LET entry == [target |-> target, proto |-> proto]
      rest == SelectSeq(log, LAMBDA e : e # entry)
  IN <<entry>> \o rest

\* History().add(target, proto): the pair goes to the front, an earlier entry
\* for the same pair is dropped, and only the HistoryMax newest are kept.
HistoryAdd(log, target, proto) ==
  LET entry == [target |-> target, proto |-> proto]
      rest == SelectSeq(log, LAMBDA e : e # entry)
      all == <<entry>> \o rest
  IN SubSeq(all, 1, Min(Len(all), HistoryMax))

\* ------------------------------------------------------------------- state

VARIABLES
  source,           \* the configuration directory the program was started on
  always_update,    \* the installed ListView re-posts Highlighted when index is assigned its old value
  suffixes,         \* Config._suffixes
  environments,     \* Config._environments
  hosts_cache,      \* Config._hosts_cache
  selected_env,     \* ViperApp.selected_env
  current_hosts,    \* ViperApp.current_hosts
  filtered_hosts,   \* ViperApp.filtered_hosts
  saved_env_index,  \* ViperApp._saved_env_index
  env_items,        \* #env-list children (the env_name of each EnvListItem)
  env_index,        \* #env-list index
  search_value,     \* #search-box value
  left_items,       \* #host-list-left children
  left_index,       \* #host-list-left index
  right_items,      \* #host-list-right children
  right_index,      \* #host-list-right index
  focused,          \* the widget that has focus: "none", "env", "search", "left", "right"
  pending,          \* callbacks queued by call_later, oldest first
  mounted,          \* on_mount has run
  load_error,       \* on_mount reported a failed Config.load
  exited,           \* App.exit was called
  result,           \* the value app.run() returns
  history,          \* the History log, newest first
  loaded,           \* Config.load has returned without raising
  exit_code,        \* the exit status of the process, None while it runs
  handoff,          \* the external client main() started, if any
  call,             \* catalogue: the last call made on Config and what it returned
  first_hosts,      \* observer: what get_hosts returned first for each id since load()
  known_ids,        \* observer: the ids some state of the configuration source has defined
  adds,             \* observer: the pairs History.add was called with, oldest first
  screen,           \* the screen on top of the stack: "main" or "history"
  history_items,    \* #history-list children (target and proto of each HistoryListItem)
  history_index,    \* #history-list index
  modal_pending,    \* callbacks queued by HistoryScreen.call_later, oldest first
  view_env,         \* observer: the environment whose hosts current_hosts holds
  last,             \* observer: the input handled last
  entry_index,      \* observer: #env-list index when search mode was entered last
  commit_index,     \* observer: #env-list index when an environment was committed last
  path              \* observer: the shape of the inputs handled so far

cfg_vars == <<source, always_update, suffixes, environments, env_items, mounted,
              load_error, loaded>>

\* The process outside app.run().
end_vars == <<exit_code, handoff>>

\* What the catalogue and history specifications observe of their callers.
unit_vars == <<call, first_hosts, known_ids, adds>>

app_vars == <<hosts_cache, selected_env, current_hosts, filtered_hosts,
              saved_env_index, env_index, search_value, left_items, left_index,
              right_items, right_index, focused, pending, exited, result, history,
              view_env>>

obs_vars == <<last, entry_index, commit_index, path>>

\* The HistoryScreen while it is open.
modal_vars == <<screen, history_items, history_index, modal_pending>>

vars == <<cfg_vars, app_vars, obs_vars, end_vars, unit_vars, modal_vars>>

\* The fields a handler reads and writes, as one value, so that the
\* statements of a handler compose in program order.
State ==
  [ hosts_cache |-> hosts_cache, selected_env |-> selected_env,
    current_hosts |-> current_hosts, filtered_hosts |-> filtered_hosts,
    saved_env_index |-> saved_env_index, env_index |-> env_index,
    search_value |-> search_value, left_items |-> left_items,
    left_index |-> left_index, right_items |-> right_items,
    right_index |-> right_index, focused |-> focused, pending |-> pending,
    exited |-> exited, result |-> result, history |-> history,
    view_env |-> view_env ]

\* The handler returned with the fields as in S.
Becomes(S) ==
  /\ hosts_cache' = S.hosts_cache
  /\ selected_env' = S.selected_env
  /\ current_hosts' = S.current_hosts
  /\ filtered_hosts' = S.filtered_hosts
  /\ saved_env_index' = S.saved_env_index
  /\ env_index' = S.env_index
  /\ search_value' = S.search_value
  /\ left_items' = S.left_items
  /\ left_index' = S.left_index
  /\ right_items' = S.right_items
  /\ right_index' = S.right_index
  /\ focused' = S.focused
  /\ pending' = S.pending
  /\ exited' = S.exited
  /\ result' = S.result
  /\ history' = S.history
  /\ view_env' = S.view_env

\* ----------------------------------------------------------- widget rules

\* ListView.validate_index for a list of n children.
validate_index(index, n) ==
  IF index = None \/ n = 0 THEN None ELSE Max(0, Min(index, n - 1))

\* The child of a ListView at its index, or nothing.
EnvItemAt(index) ==
  IF index # None /\ index < Len(env_items) THEN env_items[index + 1] ELSE NoEnv

\* ----------------------------------------------------- ViperApp, helpers

\* mid = (len + 1) // 2
Mid(hosts) == (Len(hosts) + 1) \div 2

\* Mutant of refresh_host_list: the midpoint rounds down.
refresh_host_list_floor(S) ==
  LET mid == Len(S.filtered_hosts) \div 2
  IN [S EXCEPT !.left_items = SubSeq(S.filtered_hosts, 1, mid),
               !.right_items = SubSeq(S.filtered_hosts, mid + 1, Len(S.filtered_hosts)),
               !.left_index = None,
               !.right_index = None]

\* ViperApp._refresh_host_list
refresh_host_list(S) ==
  LET mid == Mid(S.filtered_hosts)
  IN [S EXCEPT !.left_items = SubSeq(S.filtered_hosts, 1, mid),
               !.right_items = SubSeq(S.filtered_hosts, mid + 1, Len(S.filtered_hosts)),
               !.left_index = None,
               !.right_index = None]

\* Mutant of Filter: the text is compared without being lower-cased.
Filter_raw_query(hosts, value) ==
  LET query == value
  IN IF query # <<>>
     THEN SelectSeq(hosts, LAMBDA h : StrIn(query, Lower(h.display_name)))
     ELSE hosts

\* The host filter of on_search_changed: the hosts whose lower-cased display
\* name contains the lower-cased text; all hosts when the text is empty.
Filter(hosts, value) ==
  LET query == Lower(value)
  IN IF query # <<>>
     THEN SelectSeq(hosts, LAMBDA h : StrIn(query, Lower(h.display_name)))
     ELSE hosts

\* ViperApp.on_search_changed, for Input.Changed(value)
on_search_changed(S, value) ==
  refresh_host_list([S EXCEPT !.filtered_hosts = Filter(S.current_hosts, value)])

\* search_box.value = v, and the Input.Changed it posts when the value changes.
set_search_value(S, v) ==
  IF S.search_value = v THEN S
  ELSE on_search_changed([S EXCEPT !.search_value = v], v)

\* ViperApp.on_env_highlighted, for ListView.Highlighted(item)
on_env_highlighted(S, item) ==
  IF item # NoEnv /\ S.selected_env = NoEnv
  THEN LET hosts == get_hosts(source, S.hosts_cache, item)
       IN refresh_host_list(
            [S EXCEPT !.hosts_cache = cache_after(source, S.hosts_cache, item),
                      !.current_hosts = hosts,
                      !.filtered_hosts = hosts,
                      !.view_env = item])
  ELSE S

\* env_list.index = i, and the ListView.Highlighted it posts.
set_env_index(S, i) ==
  LET v == validate_index(i, Len(env_items))
      S1 == [S EXCEPT !.env_index = v]
  IN IF v # S.env_index \/ always_update
     THEN on_env_highlighted(S1, EnvItemAt(v))
     ELSE S1

\* Mutant of populate_hosts: the search box is not cleared.
populate_hosts_keeps_query(S, environment) ==
  LET hosts == get_hosts(source, S.hosts_cache, environment)
      S1 == [S EXCEPT !.selected_env = environment,
                      !.hosts_cache = cache_after(source, S.hosts_cache, environment),
                      !.current_hosts = hosts,
                      !.filtered_hosts = hosts,
                      !.view_env = environment]
  IN refresh_host_list(S1)

\* ViperApp._populate_hosts
populate_hosts(S, environment) ==
  LET hosts == get_hosts(source, S.hosts_cache, environment)
      S1 == [S EXCEPT !.selected_env = environment,
                      !.hosts_cache = cache_after(source, S.hosts_cache, environment),
                      !.current_hosts = hosts,
                      !.filtered_hosts = hosts,
                      !.view_env = environment]
  IN refresh_host_list(set_search_value(S1, <<>>))

\* ViperApp._clear_host_highlights
clear_host_highlights(S) ==
  [S EXCEPT !.left_index = None, !.right_index = None]

\* Mutant of focus_host_list: the cursor goes to the last row of the column.
focus_host_list_last_row(S, row) ==
  LET S1 == [clear_host_highlights(S) EXCEPT !.focused = "left"]
      mid == Mid(S.filtered_hosts)
  IN IF mid > 0
     THEN [S1 EXCEPT !.pending =
             Append(@, [op |-> "left_index", arg |-> mid - 1])]
     ELSE S1

\* ViperApp._focus_host_list(row)
focus_host_list(S, row) ==
  LET S1 == [clear_host_highlights(S) EXCEPT !.focused = "left"]
      mid == Mid(S.filtered_hosts)
  IN IF mid > 0
     THEN [S1 EXCEPT !.pending =
             Append(@, [op |-> "left_index", arg |-> Min(row, mid - 1)])]
     ELSE S1

\* Mutant of focus_right_list: the row is not clamped to the right column.
focus_right_list_unclamped(S, row) ==
  LET mid == Mid(S.filtered_hosts)
      right_hosts == SubSeq(S.filtered_hosts, mid + 1, Len(S.filtered_hosts))
  IN IF right_hosts = <<>> THEN S
     ELSE [clear_host_highlights(S) EXCEPT
             !.focused = "right",
             !.pending = Append(@, [op |-> "right_index", arg |-> row])]

\* ViperApp._focus_right_list(row)
focus_right_list(S, row) ==
  LET mid == Mid(S.filtered_hosts)
      right_hosts == SubSeq(S.filtered_hosts, mid + 1, Len(S.filtered_hosts))
  IN IF right_hosts = <<>> THEN S
     ELSE [clear_host_highlights(S) EXCEPT
             !.focused = "right",
             !.pending = Append(@, [op |-> "right_index",
                                    arg |-> Min(row, Len(right_hosts) - 1)])]

\* Mutant of return_to_env_list: selected_env is not reset.
return_to_env_list_keeps_selection(S) ==
  LET S1 == clear_host_highlights(S)
      restore_index == S1.saved_env_index
      S2 == set_search_value(S1, <<>>)
      S3 == refresh_host_list([S2 EXCEPT !.filtered_hosts = S2.current_hosts])
      S4 == set_env_index(S3, restore_index)
  IN [S4 EXCEPT !.pending = Append(@, [op |-> "focus_env", arg |-> None])]

\* ViperApp._return_to_env_list
return_to_env_list(S) ==
  LET S1 == clear_host_highlights(S)
      restore_index == S1.saved_env_index
      S2 == set_search_value([S1 EXCEPT !.selected_env = NoEnv], <<>>)
      S3 == refresh_host_list([S2 EXCEPT !.filtered_hosts = S2.current_hosts])
      S4 == set_env_index(S3, restore_index)
  IN [S4 EXCEPT !.pending = Append(@, [op |-> "focus_env", arg |-> None])]

\* Mutant of get_selected_host: without a cursor it falls back to the first row.
get_selected_host_first(items, index) ==
  IF index # None /\ index < Len(items) THEN items[index + 1].target
  ELSE IF items # <<>> THEN items[1].target
  ELSE <<>>

\* ViperApp._get_selected_host: the target under the cursor, <<>> for None.
get_selected_host(items, index) ==
  IF index # None /\ index < Len(items) THEN items[index + 1].target ELSE <<>>

\* Mutant of get_current_env: without a selection it falls back to the first
\* environment instead of the highlighted one.
get_current_env_first(S) ==
  IF S.selected_env # NoEnv THEN S.selected_env ELSE EnvItemAt(0)

\* ViperApp._get_current_env
get_current_env(S) ==
  IF S.selected_env # NoEnv THEN S.selected_env ELSE EnvItemAt(S.env_index)

\* Mutant of connect: the connection is not recorded in the history.
connect_unrecorded(S, target, proto) ==
  [S EXCEPT !.exited = TRUE,
            !.result = ConnectionRequest(target, proto)]

\* ViperApp._connect
connect(S, target, proto) ==
  [S EXCEPT !.history = HistoryAdd(S.history, target, proto),
            !.exited = TRUE,
            !.result = ConnectionRequest(target, proto)]

\* ViperApp._select_current_env
select_current_env(S) ==
  IF S.env_index = None \/ S.env_index >= Len(env_items) THEN S
  ELSE focus_host_list(populate_hosts(S, env_items[S.env_index + 1]), 0)

\* The children and the index of the host column that has focus.
FocusedItems(S) == IF S.focused = "left" THEN S.left_items ELSE S.right_items

FocusedIndex(S) == IF S.focused = "left" THEN S.left_index ELSE S.right_index

\* ViperApp._connect_to_selected_host and ViperApp.action_sftp: connect to the
\* host under the cursor of the focused column with the given protocol.
connect_to_selected_host(S, proto) ==
  LET hostname == get_selected_host(FocusedItems(S), FocusedIndex(S))
      env == get_current_env(S)
  IN IF hostname # <<>> /\ env # NoEnv
     THEN connect(S, build_target(suffixes, env, hostname), proto)
     ELSE S

\* ----------------------------------------------------------------- actions

\* The app is on its main screen and has not exited.
Running == mounted /\ ~exited

\* A handler ran: the fields become S.  The observer notes the input l, the
\* new shape p of the run, the highlighted row when search mode is entered
\* (kept while the search box has focus and through the input that leaves
\* it) and the highlighted row when an environment is committed (kept while
\* the run has shape "C" or "CB").
Handled(S, l, p) ==
  /\ Becomes(S)
  /\ last' = l
  /\ path' = p
  /\ entry_index' = IF l = "focus_search" THEN env_index
                    ELSE IF focused = "search" THEN entry_index
                    ELSE None
  /\ commit_index' = IF l = "commit_env" THEN env_index
                     ELSE IF p \in {"C", "CB"} THEN commit_index
                     ELSE None
  /\ UNCHANGED <<cfg_vars, end_vars, unit_vars, modal_vars>>

HostFocus == focused \in {"left", "right"}

\* ViperApp.on_mount (with _populate_environments).  When Config.load raises,
\* the error is notified and on_mount returns: the app keeps running, the
\* focus where Screen.AUTO_FOCUS put it.
on_mount ==
  /\ ~mounted
  /\ mounted' = TRUE
  /\ UNCHANGED <<source, selected_env, current_hosts, filtered_hosts,
                 saved_env_index, env_index, search_value, left_items,
                 left_index, right_items, right_index, exited, result, history,
                 view_env, always_update, entry_index, commit_index,
                 end_vars, unit_vars, modal_vars>>
  /\ last' = "mount"
  /\ path' = "B"
  /\ suffixes' = IF source.suffixes_exists THEN source.suffix_lines ELSE suffixes
  /\ focused' = "env"
  /\ loaded' = LoadOk(source)
  /\ load_error' = ~LoadOk(source)
  /\ IF LoadOk(source)
     THEN LET envs == DiscoverEnvironments(source)
          IN /\ environments' = envs
             /\ env_items' = envs
             /\ hosts_cache' = [e \in DOMAIN source.host_files |-> source.host_files[e]]
             /\ pending' = IF envs # <<>>
                           THEN Append(pending, [op |-> "env_index", arg |-> 0])
                           ELSE pending
     ELSE UNCHANGED <<environments, env_items, hosts_cache, pending>>

\* A callback queued by call_later runs.
RunCallback ==
  /\ Running
  /\ pending # <<>>
  /\ LET cb == Head(pending)
         S == [State EXCEPT !.pending = Tail(pending)]
     IN Becomes(
          CASE cb.op = "env_index" -> set_env_index(S, cb.arg)
            [] cb.op = "left_index" ->
                 [S EXCEPT !.left_index = validate_index(cb.arg, Len(S.left_items))]
            [] cb.op = "right_index" ->
                 [S EXCEPT !.right_index = validate_index(cb.arg, Len(S.right_items))]
            [] cb.op = "focus_env" -> [S EXCEPT !.focused = "env"])
  /\ UNCHANGED <<cfg_vars, obs_vars, end_vars, unit_vars, modal_vars>>

\* ViperApp.action_cursor_down / action_cursor_up: ListView.action_cursor_down
\* and action_cursor_up of the focused list (d = 1 down, d = -1 up).
action_cursor(d) ==
  /\ Running
  /\ focused \in {"env", "left", "right"}
  /\ LET step(i) == IF i = None THEN 0 ELSE Max(0, i + d)
     IN Handled(
          CASE focused = "env" -> set_env_index(State, step(env_index))
            [] focused = "left" ->
                 [State EXCEPT !.left_index =
                    validate_index(step(left_index), Len(left_items))]
            [] focused = "right" ->
                 [State EXCEPT !.right_index =
                    validate_index(step(right_index), Len(right_items))],
          "cursor",
          IF focused = "env" /\ path = "B" THEN "B"
          ELSE IF HostFocus /\ path = "C" THEN "C"
          ELSE "X")

action_cursor_down == action_cursor(1)

action_cursor_up == action_cursor(-1)

\* ViperApp.on_env_selected: Enter on the highlighted row of #env-list.
on_env_selected ==
  /\ Running
  /\ focused = "env"
  /\ EnvItemAt(env_index) # NoEnv
  /\ Handled(focus_host_list(populate_hosts(State, EnvItemAt(env_index)), 0),
             "commit_env", "C")

\* ViperApp.on_host_selected: Enter on the highlighted row of a host column.
on_host_selected ==
  /\ Running
  /\ HostFocus
  /\ FocusedIndex(State) # None
  /\ FocusedIndex(State) < Len(FocusedItems(State))
  /\ LET item == FocusedItems(State)[FocusedIndex(State) + 1]
         env == get_current_env(State)
     IN Handled(IF env # NoEnv
                THEN connect(State, build_target(suffixes, env, item.target), "ssh")
                ELSE State,
                "commit_host",
                IF path = "BSJ" /\ env # NoEnv THEN "BSJC" ELSE "X")

\* The characters the user types into the search box.
QueryChars == {"d", "B"}

\* ViperApp.on_search_changed: the user edits the text of the search box
\* (one character typed or the last one deleted).
on_input_changed ==
  /\ Running
  /\ focused = "search"
  /\ \E v \in { Append(search_value, c) : c \in QueryChars }
              \cup { SubSeq(search_value, 1, Len(search_value) - 1) } :
       /\ v # search_value
       /\ Len(v) <= MaxQuery
       /\ Handled(set_search_value(State, v), "search_changed",
                  IF path = "BS" THEN "BS" ELSE "X")

\* ViperApp.on_search_submitted: Enter in the search box.
on_search_submitted ==
  /\ Running
  /\ focused = "search"
  /\ Handled(IF filtered_hosts # <<>> THEN focus_host_list(State, 0) ELSE State,
             "search_submitted",
             IF path = "BS" /\ filtered_hosts # <<>> THEN "BSJ" ELSE "X")

\* ViperApp.on_key: Escape while the search box has focus.
on_key ==
  /\ Running
  /\ focused = "search"
  /\ LET S1 == set_search_value(State, <<>>)
         S2 == refresh_host_list([S1 EXCEPT !.filtered_hosts = S1.current_hosts])
     IN Handled(return_to_env_list(S2), "cancel_search", "X")

\* Mutant of action_back: from the right column the cursor goes to row 0 of
\* the left column.
action_back_first_row ==
  /\ Running
  /\ Handled(
       CASE focused = "env" -> State
         [] focused = "right" -> focus_host_list(State, 0)
         [] focused = "left" -> return_to_env_list(State)
         [] OTHER -> State,
       CASE focused = "right" -> "back_right"
         [] focused = "left" -> "back_left"
         [] OTHER -> "back_noop",
       CASE focused = "right" /\ path = "C" -> "C"
         [] focused = "left" /\ path = "C" -> "CB"
         [] OTHER -> "X")

\* ViperApp.action_back
action_back ==
  /\ Running
  /\ Handled(
       CASE focused = "env" -> State
         [] focused = "right" ->
              focus_host_list(State, IF right_index # None THEN right_index ELSE 0)
         [] focused = "left" -> return_to_env_list(State)
         [] OTHER -> State,
       CASE focused = "right" -> "back_right"
         [] focused = "left" -> "back_left"
         [] OTHER -> "back_noop",
       CASE focused = "right" /\ path = "C" -> "C"
         [] focused = "left" /\ path = "C" -> "CB"
         [] OTHER -> "X")

\* Mutant of action_escape_back: from the right column Escape steps back to
\* the left column.
action_escape_back_steps_left ==
  /\ Running
  /\ Handled(
       CASE focused = "search" -> return_to_env_list(set_search_value(State, <<>>))
         [] focused = "left" -> return_to_env_list(State)
         [] focused = "right" ->
              focus_host_list(State, IF right_index # None THEN right_index ELSE 0)
         [] focused = "env" -> [State EXCEPT !.exited = TRUE]
         [] OTHER -> State,
       CASE focused = "search" -> "cancel_search"
         [] focused = "left" -> "escape_left"
         [] focused = "right" -> "escape_right"
         [] focused = "env" -> "escape_env"
         [] OTHER -> "escape_noop",
       IF focused = "left" /\ path = "C" THEN "CB" ELSE "X")

\* ViperApp.action_escape_back
action_escape_back ==
  /\ Running
  /\ Handled(
       CASE focused = "search" -> return_to_env_list(set_search_value(State, <<>>))
         [] HostFocus -> return_to_env_list(State)
         [] focused = "env" -> [State EXCEPT !.exited = TRUE]
         [] OTHER -> State,
       CASE focused = "search" -> "cancel_search"
         [] focused = "left" -> "escape_left"
         [] focused = "right" -> "escape_right"
         [] focused = "env" -> "escape_env"
         [] OTHER -> "escape_noop",
       IF focused = "left" /\ path = "C" THEN "CB" ELSE "X")

\* Mutant of focus_search: entering search drops the selected environment.
focus_search_drops_selection(S) ==
  [S EXCEPT !.saved_env_index = IF S.env_index # None THEN S.env_index ELSE @,
            !.selected_env = NoEnv,
            !.focused = "search"]

\* The body of ViperApp.action_focus_search: the highlighted row is saved
\* and the search box gets the focus.
focus_search(S) ==
  [S EXCEPT !.saved_env_index = IF S.env_index # None THEN S.env_index ELSE @,
            !.focused = "search"]

\* ViperApp.action_focus_search
action_focus_search ==
  /\ Running
  /\ Handled(focus_search(State),
             "focus_search",
             IF path = "B" /\ focused = "env" THEN "BS" ELSE "X")

\* ViperApp.action_go_right
action_go_right ==
  /\ Running
  /\ Handled(
       CASE focused = "env" -> select_current_env(State)
         [] focused = "left" ->
              focus_right_list(State, IF left_index # None THEN left_index ELSE 0)
         [] OTHER -> State,
       CASE focused = "env" -> "commit_env"
         [] focused = "left" -> "go_right"
         [] OTHER -> "go_right_noop",
       CASE focused = "env" /\ EnvItemAt(env_index) # NoEnv -> "C"
         [] focused = "left" /\ path = "C" -> "C"
         [] OTHER -> "X")

\* ViperApp.action_confirm
action_confirm ==
  /\ Running
  /\ Handled(
       CASE focused = "search" ->
              IF filtered_hosts # <<>> THEN focus_host_list(State, 0) ELSE State
         [] focused = "env" -> select_current_env(State)
         [] HostFocus -> connect_to_selected_host(State, "ssh")
         [] OTHER -> State,
       CASE focused = "search" -> "search_submitted"
         [] focused = "env" -> "commit_env"
         [] HostFocus -> "commit_host"
         [] OTHER -> "confirm_noop",
       CASE focused = "search" /\ path = "BS" /\ filtered_hosts # <<>> -> "BSJ"
         [] focused = "env" /\ EnvItemAt(env_index) # NoEnv -> "C"
         [] HostFocus /\ path = "BSJ"
              /\ connect_to_selected_host(State, "ssh").exited -> "BSJC"
         [] OTHER -> "X")

\* ViperApp.action_sftp
action_sftp ==
  /\ Running
  /\ Handled(IF HostFocus THEN connect_to_selected_host(State, "sftp") ELSE State,
             "sftp", "X")

\* ViperApp.action_switch_panel
action_switch_panel ==
  /\ Running
  /\ Handled(
       CASE focused = "env" -> [State EXCEPT !.focused = "left"]
         [] focused = "left" -> [State EXCEPT !.focused = "right"]
         [] OTHER -> [State EXCEPT !.focused = "env"],
       "switch_panel", "X")

\* Binding "q": App.action_quit exits without a result.
action_quit ==
  /\ Running
  /\ Handled([State EXCEPT !.exited = TRUE], "quit", "X")

\* No external client was started.
NoHandoff == [client |-> "none", target |-> <<>>, proto |-> "none"]

\* The exit statuses an external client may end with.
ClientCodes == {0, 1}

\* Mutant of main: the result is handed to a client without the test for
\* "no result".
main_without_result_test ==
  /\ mounted
  /\ exited
  /\ exit_code = None
  /\ \E expect_exists \in BOOLEAN, ret \in ClientCodes :
       /\ handoff' = [client |-> IF expect_exists THEN "expect.sh" ELSE "ssh",
                      target |-> result.target,
                      proto |-> "ssh"]
       /\ exit_code' = ret
  /\ UNCHANGED <<cfg_vars, app_vars, obs_vars, unit_vars, modal_vars>>

\* main(), after app.run() has returned: without a result it returns (exit
\* status 0); with one it hands the target to expect.sh if that script
\* exists, to sftp or to ssh, and the process ends with the client's status.
main ==
  /\ mounted
  /\ exited
  /\ exit_code = None
  /\ IF result = NoResult
     THEN /\ exit_code' = 0
          /\ handoff' = handoff
     ELSE \E expect_exists \in BOOLEAN, ret \in ClientCodes :
            /\ handoff' = [client |-> IF expect_exists THEN "expect.sh"
                                      ELSE result.proto,
                           target |-> result.target,
                           proto |-> result.proto]
            /\ exit_code' = ret
  /\ UNCHANGED <<cfg_vars, app_vars, obs_vars, unit_vars, modal_vars>>

\* ----------------------------------------------------------- specification

\* Connections of earlier runs, newest first; the history file holds the
\* first k of them for some k <= MaxOldHistory.
OldLog ==
  << ConnectionRequest(<<"d","b","1","-","s","t","g",".","i","n","t","e","r","n","a","l">>, "ssh"),
     ConnectionRequest(<<"u","@","w">>, "sftp"),
     ConnectionRequest(<<"b","d",".","p">>, "ssh") >>

\* The fields of a Config and a ViperApp after construction, before anything
\* has run.
Fresh ==
  /\ view_env = NoEnv
  /\ suffixes = [e \in {} |-> <<>>]
  /\ environments = <<>>
  /\ hosts_cache = [e \in {} |-> <<>>]
  /\ selected_env = NoEnv
  /\ current_hosts = <<>>
  /\ filtered_hosts = <<>>
  /\ saved_env_index = 0
  /\ env_items = <<>>
  /\ env_index = None
  /\ search_value = <<>>
  /\ left_items = <<>>
  /\ left_index = None
  /\ right_items = <<>>
  /\ right_index = None
  /\ focused = "none"
  /\ pending = <<>>
  /\ mounted = FALSE
  /\ load_error = FALSE
  /\ loaded = FALSE
  /\ exited = FALSE
  /\ result = NoResult
  /\ exit_code = None
  /\ handoff = NoHandoff
  /\ call = NoCall
  /\ first_hosts = [e \in {} |-> <<>>]
  /\ adds = <<>>
  /\ screen = "main"
  /\ history_items = <<>>
  /\ history_index = None
  /\ modal_pending = <<>>
  /\ last = "none"
  /\ entry_index = None
  /\ commit_index = None
  /\ path = "X"

Init ==
  /\ source \in Sources
  /\ always_update \in BOOLEAN
  /\ history \in { SubSeq(OldLog, 1, k) : k \in 0..Min(MaxOldHistory, Len(OldLog)) }
  /\ known_ids = {}
  /\ Fresh

\* No callback is queued: the event loop is idle.
Idle == pending = <<>>

\* The event loop is idle between two inputs of the user: the callbacks an
\* input queued have run when the next input is handled.
Next ==
  \/ on_mount
  \/ RunCallback
  \/ (Idle /\ action_cursor_down)
  \/ (Idle /\ action_cursor_up)
  \/ (Idle /\ on_env_selected)
  \/ (Idle /\ on_host_selected)
  \/ (Idle /\ on_input_changed)
  \/ (Idle /\ on_search_submitted)
  \/ (Idle /\ on_key)
  \/ (Idle /\ action_back)
  \/ (Idle /\ action_escape_back)
  \/ (Idle /\ action_focus_search)
  \/ (Idle /\ action_go_right)
  \/ (Idle /\ action_confirm)
  \/ (Idle /\ action_sftp)
  \/ (Idle /\ action_switch_panel)
  \/ (Idle /\ action_quit)
  \/ main

Spec == Init /\ [][Next]_vars

\* ------------------------------------------------------------ keys in a row

\* call_later posts its callback behind the messages that are already
\* queued, so a key the user typed before the handler of the previous key
\* ran is handled before the callbacks of that handler.  The run below
\* starts from a complete configuration directory and an empty history.
TypeAheadInit ==
  /\ source = GoodSource
  /\ always_update = FALSE
  /\ history = <<>>
  /\ known_ids = {}
  /\ Fresh

\* A key is handled while at most MaxAhead callbacks wait.
Ahead == Len(pending) <= MaxAhead

TypeAheadNext ==
  \/ on_mount
  \/ RunCallback
  \/ (Ahead /\ action_cursor_down)
  \/ (Ahead /\ action_cursor_up)
  \/ (Ahead /\ on_env_selected)
  \/ (Ahead /\ on_host_selected)
  \/ (Ahead /\ on_input_changed)
  \/ (Ahead /\ on_search_submitted)
  \/ (Ahead /\ on_key)
  \/ (Ahead /\ action_back)
  \/ (Ahead /\ action_escape_back)
  \/ (Ahead /\ action_focus_search)
  \/ (Ahead /\ action_go_right)
  \/ (Ahead /\ action_confirm)
  \/ (Ahead /\ action_sftp)
  \/ (Ahead /\ action_switch_panel)
  \/ (Ahead /\ action_quit)
  \/ main

TypeAheadSpec == TypeAheadInit /\ [][TypeAheadNext]_vars

\* ------------------------------------------------------ the history screen

\* The modal screen of recent connections, opened over the main screen.

\* The main screen is on top.
OnMain == screen = "main"

\* The history screen is on top and its callbacks have run.
OnHistory == screen = "history" /\ modal_pending = <<>>

\* A handler of the history screen ran: the observer notes the input l.
ModalHandled(l) ==
  /\ last' = l
  /\ UNCHANGED <<entry_index, commit_index, path, cfg_vars, end_vars, unit_vars>>

\* ViperApp.action_open_history with HistoryScreen.on_mount: binding "r",
\* which the search box takes as a character.  The screen is pushed, the
\* log is loaded into #history-list and, when it has entries, the cursor
\* assignment is queued.
action_open_history ==
  /\ Running
  /\ OnMain
  /\ focused # "search"
  /\ screen' = "history"
  /\ history_items' = history
  /\ history_index' = None
  /\ modal_pending' = IF history # <<>>
                      THEN <<[op |-> "history_index", arg |-> 0]>>
                      ELSE <<>>
  /\ ModalHandled("open_history")
  /\ UNCHANGED app_vars

\* The callback queued by HistoryScreen.on_mount runs.
RunModalCallback ==
  /\ Running
  /\ screen = "history"
  /\ modal_pending # <<>>
  /\ history_index' = validate_index(Head(modal_pending).arg, Len(history_items))
  /\ modal_pending' = Tail(modal_pending)
  /\ UNCHANGED <<screen, history_items, cfg_vars, app_vars, obs_vars, end_vars,
                 unit_vars>>

\* HistoryScreen.action_cursor_down / action_cursor_up (d = 1 down, -1 up).
HistoryScreen_action_cursor(d) ==
  /\ Running
  /\ OnHistory
  /\ LET step == IF history_index = None THEN 0 ELSE Max(0, history_index + d)
     IN history_index' = validate_index(step, Len(history_items))
  /\ ModalHandled("history_cursor")
  /\ UNCHANGED <<screen, history_items, modal_pending, app_vars>>

HistoryScreen_action_cursor_down == HistoryScreen_action_cursor(1)

HistoryScreen_action_cursor_up == HistoryScreen_action_cursor(-1)

\* handle_history in ViperApp.action_open_history, the callback of dismiss:
\* a target is passed to _connect, whose proto defaults to "ssh".
handle_history(S, target) ==
  IF target # <<>> THEN connect(S, target, "ssh") ELSE S

\* HistoryScreen.on_list_view_selected: Enter on the highlighted row; the
\* screen is dismissed with the target of the row.
HistoryScreen_on_list_view_selected ==
  /\ Running
  /\ OnHistory
  /\ history_index # None
  /\ history_index < Len(history_items)
  /\ Becomes(handle_history(State, history_items[history_index + 1].target))
  /\ screen' = "main"
  /\ history_items' = <<>>
  /\ history_index' = None
  /\ modal_pending' = <<>>
  /\ ModalHandled("reconnect")

\* HistoryScreen bindings escape, r and q: dismiss without a result.
HistoryScreen_action_dismiss ==
  /\ Running
  /\ OnHistory
  /\ Becomes(handle_history(State, <<>>))
  /\ screen' = "main"
  /\ history_items' = <<>>
  /\ history_index' = None
  /\ modal_pending' = <<>>
  /\ ModalHandled("close_history")

\* The history file holds the first k entries of OldLog, for any k.
ReconnectInit ==
  /\ source \in Sources
  /\ always_update \in BOOLEAN
  /\ history \in { SubSeq(OldLog, 1, k) : k \in 0..Len(OldLog) }
  /\ known_ids = {}
  /\ Fresh

\* A run in which the user opens the history screen from the environment
\* list, any number of times, and leaves by a connection or by a cancel.
ReconnectNext ==
  \/ on_mount
  \/ RunCallback
  \/ (Idle /\ OnMain /\ action_cursor_down)
  \/ (Idle /\ OnMain /\ action_cursor_up)
  \/ (Idle /\ OnMain /\ action_escape_back)
  \/ (Idle /\ action_open_history)
  \/ RunModalCallback
  \/ HistoryScreen_action_cursor_down
  \/ HistoryScreen_action_cursor_up
  \/ HistoryScreen_on_list_view_selected
  \/ HistoryScreen_action_dismiss
  \/ main

ReconnectSpec == ReconnectInit /\ [][ReconnectNext]_vars

\* ------------------------------------------------ the catalogue on its own

\* A Config object called directly, over a configuration directory that may
\* change while the object lives.

\* prod.hosts after an edit: one host is left.
EditedSource ==
  [GoodSource EXCEPT !.host_files =
     [e \in EnvIds |->
        CASE e = "dev" -> <<>>
          [] e = "prod" -> <<ProdHosts[4]>>
          [] e = "staging" -> StagingHosts]]

CatSources == Sources \cup {EditedSource}

\* The ids the catalogue is asked about; "qa" is configured nowhere.
LookupIds == EnvIds \cup {"qa"}

\* The host names build_target is called with: plain, fully qualified,
\* user-qualified and empty.
Hostnames == { <<"b","d">>, <<"d","b",".","x">>, <<"u","@","w">>, <<>> }

\* The ids a configuration source defines: a host file or a suffix line.
IdsOf(src) == (DOMAIN src.host_files) \cup (DOMAIN src.suffix_lines)

\* What no call on the catalogue touches.
cat_frame == <<always_update, env_items, mounted, selected_env, current_hosts,
               filtered_hosts, saved_env_index, env_index, search_value,
               left_items, left_index, right_items, right_index, focused,
               pending, exited, result, history, view_env, obs_vars, end_vars,
               adds, modal_vars>>

\* Config.load, called once: _load_suffixes, then _discover_environments.
Config_load ==
  /\ ~loaded
  /\ ~load_error
  /\ suffixes' = IF source.suffixes_exists THEN source.suffix_lines ELSE suffixes
  /\ environments' = IF source.suffixes_exists /\ source.dir_exists
                     THEN DiscoverEnvironments(source) ELSE environments
  /\ loaded' = LoadOk(source)
  /\ load_error' = ~LoadOk(source)
  /\ call' = [op |-> "load", env |-> NoEnv, arg |-> <<>>, value |-> <<>>]
  /\ first_hosts' = [e \in {} |-> <<>>]
  /\ UNCHANGED <<source, hosts_cache, known_ids, cat_frame>>

\* Config.environments
Config_environments ==
  /\ call' = [op |-> "environments", env |-> NoEnv, arg |-> <<>>,
              value |-> environments]
  /\ UNCHANGED <<source, suffixes, environments, hosts_cache, loaded, load_error,
                 first_hosts, known_ids, cat_frame>>

\* Config.get_suffix(environment)
Config_get_suffix ==
  \E e \in LookupIds :
    /\ call' = [op |-> "get_suffix", env |-> e, arg |-> <<>>,
                value |-> get_suffix(suffixes, e)]
    /\ UNCHANGED <<source, suffixes, environments, hosts_cache, loaded,
                   load_error, first_hosts, known_ids, cat_frame>>

\* Config.get_hosts(environment)
Config_get_hosts ==
  \E e \in LookupIds :
    LET hosts == get_hosts(source, hosts_cache, e)
    IN /\ call' = [op |-> "get_hosts", env |-> e, arg |-> <<>>, value |-> hosts]
       /\ hosts_cache' = cache_after(source, hosts_cache, e)
       /\ first_hosts' =
            IF loaded /\ e \notin DOMAIN first_hosts
            THEN [x \in (DOMAIN first_hosts) \cup {e} |->
                    IF x = e THEN hosts ELSE first_hosts[x]]
            ELSE first_hosts
       /\ UNCHANGED <<source, suffixes, environments, loaded, load_error,
                      known_ids, cat_frame>>

\* Config.build_target(environment, hostname)
Config_build_target ==
  \E e \in LookupIds, h \in Hostnames :
    /\ call' = [op |-> "build_target", env |-> e, arg |-> h,
                value |-> build_target(suffixes, e, h)]
    /\ UNCHANGED <<source, suffixes, environments, hosts_cache, loaded,
                   load_error, first_hosts, known_ids, cat_frame>>

\* Somebody edits the configuration directory.
SourceChanges ==
  \E src \in CatSources \ {source} :
    /\ source' = src
    /\ known_ids' = known_ids \cup IdsOf(src)
    /\ UNCHANGED <<suffixes, environments, hosts_cache, loaded, load_error,
                   call, first_hosts, cat_frame>>

CatalogInit ==
  /\ source \in CatSources
  /\ always_update = FALSE
  /\ history = <<>>
  /\ known_ids = IdsOf(source)
  /\ Fresh

CatalogNext ==
  \/ Config_load
  \/ Config_environments
  \/ Config_get_suffix
  \/ Config_get_hosts
  \/ Config_build_target
  \/ SourceChanges

CatalogSpec == CatalogInit /\ [][CatalogNext]_vars

\* -------------------------------------------------- the history on its own

\* One history file over many runs of the program, each of which ends in
\* _connect(target, proto).

\* The connections the runs make, in the order in which they are first made.
HistoryPool ==
  << ConnectionRequest(<<"a">>, "ssh"), ConnectionRequest(<<"b">>, "ssh"),
     ConnectionRequest(<<"a">>, "sftp"), ConnectionRequest(<<"b">>, "sftp"),
     ConnectionRequest(<<"c">>, "ssh"), ConnectionRequest(<<"c">>, "sftp"),
     ConnectionRequest(<<"d">>, "ssh"), ConnectionRequest(<<"d">>, "sftp"),
     ConnectionRequest(<<"e">>, "ssh"), ConnectionRequest(<<"e">>, "sftp"),
     ConnectionRequest(<<"f">>, "ssh"), ConnectionRequest(<<"f">>, "sftp") >>

\* The connections made so far, as a set.
Added == { adds[i] : i \in 1..Len(adds) }

\* A run ends in _connect(c.target, c.proto): History().add writes the log.
Connected(c) ==
  /\ Len(adds) < MaxAdds
  /\ history' = connect(State, c.target, c.proto).history
  /\ adds' = Append(adds, c)
  /\ UNCHANGED <<cfg_vars, hosts_cache, selected_env, current_hosts,
                 filtered_hosts, saved_env_index, env_index, search_value,
                 left_items, left_index, right_items, right_index, focused,
                 pending, exited, result, view_env, obs_vars, end_vars, call,
                 first_hosts, known_ids, modal_vars>>

\* A connection that was never made before.
connect_new ==
  /\ Cardinality(Added) < Len(HistoryPool)
  /\ Connected(HistoryPool[Cardinality(Added) + 1])

\* A connection that was made before.
connect_again ==
  /\ Len(adds) - Cardinality(Added) < MaxReAdds
  /\ \E c \in Added : Connected(c)

HistoryInit ==
  /\ source = GoodSource
  /\ always_update = FALSE
  /\ history = <<>>
  /\ known_ids = {}
  /\ Fresh

HistoryNext ==
  \/ connect_new
  \/ connect_again

HistorySpec == HistoryInit /\ [][HistoryNext]_vars

\* ------------------------------------------------------------------ claims

\* The hosts the configuration source lists for environment e, in file order.
FullHosts(e) ==
  IF e \in DOMAIN source.host_files THEN source.host_files[e] ELSE <<>>

\* The environment on the highlighted row of the environment list.
HighlightedEnv ==
  IF env_index # None /\ env_index < Len(env_items)
  THEN env_items[env_index + 1] ELSE NoEnv

\* The environment a commit resolves against.
SourceEnv == IF selected_env # NoEnv THEN selected_env ELSE HighlightedEnv

\* The midpoint split of a host sequence.
LeftOf(hosts) == SubSeq(hosts, 1, (Len(hosts) + 1) \div 2)

RightOf(hosts) == SubSeq(hosts, (Len(hosts) + 1) \div 2 + 1, Len(hosts))

\* name contains q as a substring, ignoring case.
ContainsIgnoringCase(name, q) ==
  \E off \in 0..(Len(name) - Len(q)) :
    \A k \in 1..Len(q) : LowerChar(name[off + k]) = LowerChar(q[k])

\* The hosts of H whose display name contains q ignoring case, in H's order.
RECURSIVE Matching(_, _)
Matching(H, q) ==
  IF H = <<>> THEN <<>>
  ELSE IF ContainsIgnoringCase(Head(H).display_name, q)
       THEN <<Head(H)>> \o Matching(Tail(H), q)
       ELSE Matching(Tail(H), q)

\* C1: cancel from the search box, whatever was typed, leaves the focus on
\* the environment list, on the row that was highlighted when search mode
\* was entered, with an empty filter, no selected environment and all the
\* hosts of the environment of the view visible.
C1_CancelSearchRestoresEnvList ==
  (last = "cancel_search" /\ Idle) =>
    /\ focused = "env"
    /\ env_index = entry_index
    /\ search_value = <<>>
    /\ selected_env = NoEnv
    /\ filtered_hosts = FullHosts(view_env)

\* C1 witness: search was entered on the third row of the environment list
\* and then cancelled.
C1_Witness ==
  /\ last = "cancel_search"
  /\ Idle
  /\ entry_index = 2
  /\ focused = "env"
  /\ filtered_hosts = StagingHosts

\* C2: after an environment on row i is committed, back or cancel from the
\* left host column returns to the environment list on row i, with no
\* selected environment and an empty filter.
C2_BackReturnsToCommittedRow ==
  (path = "CB" /\ Idle) =>
    /\ focused = "env"
    /\ selected_env = NoEnv
    /\ search_value = <<>>
    /\ env_index = commit_index

\* C3: committing the highlighted environment e selects e, empties the
\* filter, shows all hosts of e split at the midpoint and moves the focus to
\* the left host column, cursor on row 0, or no cursor when e has no hosts.
C3_CommitEnvShowsAllHosts ==
  (last = "commit_env" /\ Idle /\ HighlightedEnv # NoEnv) =>
    /\ selected_env = HighlightedEnv
    /\ search_value = <<>>
    /\ filtered_hosts = FullHosts(HighlightedEnv)
    /\ left_items = LeftOf(filtered_hosts)
    /\ right_items = RightOf(filtered_hosts)
    /\ focused = "left"
    /\ left_index = IF FullHosts(HighlightedEnv) = <<>> THEN None ELSE 0

\* C3 witness: an environment with hosts was committed and the cursor is on
\* row 0 of the left column.
C3_Witness ==
  /\ last = "commit_env"
  /\ Idle
  /\ selected_env = "prod"
  /\ focused = "left"
  /\ left_index = 0
  /\ Len(right_items) = 2

\* The host under the cursor of the focused host column, if any.
CursorOnHost ==
  /\ HostFocus
  /\ FocusedIndex(State) # None
  /\ FocusedIndex(State) < Len(FocusedItems(State))

HostAtCursor == FocusedItems(State)[FocusedIndex(State) + 1]

\* C4: a commit in a host column with the cursor on host h ends the program
\* with the result (resolve(env, h.target), ssh), env being the selected
\* environment if there is one and the highlighted one otherwise, and that
\* pair is in the history log, at its front, when the program ends.
C4_CommitHostConnects ==
  [][ ((on_host_selected \/ action_confirm) /\ CursorOnHost) =>
        /\ exited'
        /\ result' = ConnectionRequest(
                       build_target(suffixes, SourceEnv, HostAtCursor.target), "ssh")
        /\ history' = HistoryAdd(history, result'.target, "ssh")
        /\ Head(history') = result' ]_vars

\* C4 witness: the program ended by a commit on a host of the selected
\* environment, whose suffix was appended.
C4_Witness ==
  /\ exited
  /\ last = "commit_host"
  /\ selected_env = "prod"
  /\ result = ConnectionRequest(<<"b","d",".","p">>, "ssh")
  /\ Head(history) = result

\* C5: highlight an environment e without ever committing, enter search,
\* type a query with a match, confirm and commit the host under the cursor:
\* the visible hosts are the hosts of e matching the query, the columns are
\* their split, and the result is the first visible host resolved against e.
C5_PreviewSearchCommit ==
  (path = "BSJC") =>
    /\ selected_env = NoEnv
    /\ filtered_hosts = Matching(FullHosts(HighlightedEnv), search_value)
    /\ left_items = LeftOf(filtered_hosts)
    /\ right_items = RightOf(filtered_hosts)
    /\ result = ConnectionRequest(
                  build_target(suffixes, HighlightedEnv,
                               Head(filtered_hosts).target), "ssh")

\* C5 witness: staging highlighted, "dB" typed, db1 committed:
\* db1-stg.internal over ssh.
C5_Witness ==
  /\ path = "BSJC"
  /\ HighlightedEnv = "staging"
  /\ search_value = <<"d","B">>
  /\ left_items = <<HostInfo(<<"d","b","1">>, <<"d","b","1">>)>>
  /\ right_items = <<>>
  /\ result = ConnectionRequest(
                <<"d","b","1","-","s","t","g",".","i","n","t","e","r","n","a","l">>,
                "ssh")

\* C6: whenever the environment whose hosts are shown changes from one state
\* to the next, the filter is empty afterwards and all hosts of the new
\* environment are visible.
C6_FilterNeverCarriedAcross ==
  [][ view_env' # view_env =>
        (search_value' = <<>> /\ filtered_hosts' = FullHosts(view_env')) ]_vars

\* C7: in every state the two columns are the midpoint split of the visible
\* hosts: the left one holds the first ceil(n/2), the right one the rest.
C7_ColumnsAreMidpointSplit ==
  LET n == Len(filtered_hosts)
      mid == (n + 1) \div 2
  IN /\ left_items = SubSeq(filtered_hosts, 1, mid)
     /\ right_items = SubSeq(filtered_hosts, mid + 1, n)
     /\ Len(left_items) = n - (n \div 2)
     /\ Len(right_items) = n - Len(left_items)
     /\ left_items \o right_items = filtered_hosts

\* C7 witness: three hosts pass a filter: two on the left, one on the right.
C7_Witness ==
  /\ search_value # <<>>
  /\ Len(filtered_hosts) = 3
  /\ Len(left_items) = 2
  /\ Len(right_items) = 1

\* a is b with some elements left out, order kept.
RECURSIVE IsSubsequence(_, _)
IsSubsequence(a, b) ==
  IF a = <<>> THEN TRUE
  ELSE IF b = <<>> THEN FALSE
  ELSE IF Head(a) = Head(b) THEN IsSubsequence(Tail(a), Tail(b))
  ELSE IsSubsequence(a, Tail(b))

\* C8: in every state the visible hosts are an order-preserving subsequence
\* of the hosts of the environment a commit would resolve against (the
\* selected one, else the highlighted one).
C8_VisibleHostsBelongToSourceEnv ==
  IsSubsequence(filtered_hosts, FullHosts(SourceEnv))

\* C9: in every state the visible hosts are the filter applied to the full
\* host list loaded for the view.
C9_VisibleIsFilterOfLoaded ==
  filtered_hosts = Matching(current_hosts, search_value)

\* C10: the host filter keeps exactly the hosts whose display name contains
\* the query ignoring case, in their order; the target plays no part and the
\* empty query keeps every host.
C10_FilterIsCaseInsensitiveNameMatch ==
  (last = "search_changed") =>
    /\ filtered_hosts = Matching(current_hosts, search_value)
    /\ (search_value = <<>> => filtered_hosts = current_hosts)
    /\ IsSubsequence(filtered_hosts, current_hosts)

\* C10 witness: "d" on prod keeps DB and bd and drops app, whose target
\* db.x contains the query.
C10_Witness ==
  /\ last = "search_changed"
  /\ search_value = <<"d">>
  /\ current_hosts = ProdHosts
  /\ filtered_hosts = <<ProdHosts[1], ProdHosts[4]>>

\* The suffix the loaded catalogue holds for e: the empty string if unset.
SuffixOf(e) == IF e \in DOMAIN suffixes THEN suffixes[e] ELSE <<>>

\* The host target is fully qualified or user-qualified.
Qualified(h) == \E i \in 1..Len(h) : h[i] \in {".", "@"}

\* C11: for every environment id and host target, the resolver returns the
\* target unchanged when it contains "." or "@", and the target followed by
\* the suffix of the environment (empty if it has none) otherwise.
C11_ResolverAppendsSuffixUnlessQualified ==
  [][ Config_build_target =>
        call'.value = IF Qualified(call'.arg) THEN call'.arg
                      ELSE call'.arg \o SuffixOf(call'.env) ]_vars

\* C11 witness: on a loaded catalogue a plain name was resolved in an
\* environment with a suffix.
C11_Witness ==
  /\ loaded
  /\ call.op = "build_target"
  /\ call.env = "prod"
  /\ call.arg = <<"b","d">>
  /\ call.value = <<"b","d",".","p">>

\* The fields that make up the navigation state.
NavigationState ==
  <<focused, selected_env, env_index, saved_env_index, search_value,
    current_hosts, filtered_hosts, left_items, left_index, right_items,
    right_index, pending>>

\* C12: a commit (ssh or sftp) in a host column without a host under the
\* cursor changes nothing: no result, no history entry, no exit, the same
\* navigation state; and while no host passes the filter both columns are
\* empty and no commit in a host column ends the program.
C12_SelectWithoutHostIsNoOp ==
  /\ [](filtered_hosts = <<>> => (left_items = <<>> /\ right_items = <<>>))
  /\ [][ ((action_confirm \/ action_sftp \/ on_host_selected)
           /\ HostFocus /\ (~CursorOnHost \/ filtered_hosts = <<>>)) =>
          /\ UNCHANGED NavigationState
          /\ ~exited'
          /\ result' = NoResult
          /\ history' = history ]_vars

\* C12 witness: Enter was pressed in the left column while a filter with no
\* match was in the search box, and the program is still running.
C12_Witness ==
  /\ last = "commit_host"
  /\ focused = "left"
  /\ search_value # <<>>
  /\ filtered_hosts = <<>>
  /\ current_hosts # <<>>
  /\ ~exited
  /\ result = NoResult

\* C13, as stated: cancel or back with the focus on the environment list
\* ends the program with no target chosen and nothing added to the history.
C13_CancelOrBackFromEnvListTerminates ==
  [][ ((action_escape_back \/ action_back) /\ focused = "env") =>
        (exited' /\ result' = NoResult /\ history' = history) ]_vars

\* C13, amended: cancel (Escape) with the focus on the environment list ends
\* the program with no result and nothing added to the history, and main
\* then starts no client and leaves with status 0; back (Left) with the
\* focus on the environment list changes nothing and the program goes on.
C13_CancelFromEnvListTerminates ==
  /\ [][ (action_escape_back /\ focused = "env") =>
          (exited' /\ result' = NoResult /\ history' = history) ]_vars
  /\ [][ (action_back /\ focused = "env") =>
          UNCHANGED <<NavigationState, exited, result, history>> ]_vars
  /\ [](last = "escape_env" =>
          (exited /\ result = NoResult /\ handoff = NoHandoff
           /\ exit_code \in {None, 0}))

\* C13 witness: the program ended by Escape on the environment list after
\* some browsing, and main has returned.
C13_Witness ==
  /\ last = "escape_env"
  /\ env_index = 1
  /\ exited
  /\ exit_code = 0
  /\ result = NoResult
  /\ handoff = NoHandoff

\* The inputs that end the program.
LeavingInputs == {"quit", "escape_env"}

\* C14: after a failed Config.load no navigation input (search, highlight,
\* commit, switch-panel) is handled: whatever is handled after on_mount only
\* ends the program.
C14_FailedLoadIsFatal ==
  load_error => last \in {"mount"} \cup LeavingInputs

\* C15: once the process has ended, its exit status is non-zero exactly
\* when Config.load failed.
C15_ExitCodeTellsLoadFailure ==
  exit_code # None => (exit_code # 0 <=> load_error)

\* No pair occurs twice in the log.
NoDuplicates(log) ==
  \A i, j \in 1..Len(log) : log[i] = log[j] => i = j

\* The log with its entry at position k taken out.
DropAt(log, k) == SubSeq(log, 1, k - 1) \o SubSeq(log, k + 1, Len(log))

\* C16: the log never holds a pair twice; an add puts its pair at the front,
\* and when the pair was in the log already, its earlier entry is taken out
\* and the other entries keep their order.
C16_HistoryHoldsEachPairOnce ==
  /\ []NoDuplicates(history)
  /\ [][ adds' # adds =>
          LET c == adds'[Len(adds')]
          IN /\ Head(history') = c
             /\ \A k \in 1..Len(history) :
                  history[k] = c => history' = <<c>> \o DropAt(history, k) ]_vars

\* C16 witness: a, b, a was added: the log is [a, b].
C16_Witness ==
  /\ adds = << ConnectionRequest(<<"a">>, "ssh"), ConnectionRequest(<<"b">>, "ssh"),
               ConnectionRequest(<<"a">>, "ssh") >>
  /\ history = << ConnectionRequest(<<"a">>, "ssh"), ConnectionRequest(<<"b">>, "ssh") >>

\* The pairs of a sequence of adds, each once, most recently added first.
RECURSIVE RecentFirst(_)
RecentFirst(s) ==
  IF s = <<>> THEN <<>>
  ELSE LET c == s[Len(s)]
           before == RecentFirst(SubSeq(s, 1, Len(s) - 1))
       IN <<c>> \o SelectSeq(before, LAMBDA x : x # c)

\* C17: the log never holds more than 10 entries, and it holds the 10 most
\* recently added pairs (all of them while there are fewer), newest first.
C17_HistoryKeepsTenMostRecent ==
  /\ Len(history) <= 10
  /\ LET recent == RecentFirst(adds)
     IN history = SubSeq(recent, 1, IF Len(recent) < 10 THEN Len(recent) ELSE 10)

\* C17 witness: 11 different pairs were added: 10 entries, the first pair
\* added is gone.
C17_Witness ==
  /\ Len(adds) = 11
  /\ Cardinality(Added) = 11
  /\ Len(history) = 10
  /\ \A k \in 1..Len(history) : history[k] # adds[1]

\* C18: load() fails exactly when suffixes.conf is missing, the host_list
\* directory is missing or no environment is defined; otherwise it succeeds
\* and the catalogue has at least one environment.
C18_LoadFailsExactlyWhenNothingToLoad ==
  [][ Config_load =>
        /\ load_error' <=> \/ ~source.suffixes_exists
                           \/ ~source.dir_exists
                           \/ DOMAIN source.host_files = {}
        /\ loaded' <=> ~load_error'
        /\ loaded' => environments' # <<>> ]_vars

\* C18 witness: load() succeeded on a directory with three host files.
C18_Witness ==
  /\ call.op = "load"
  /\ loaded
  /\ ~load_error
  /\ environments = <<"dev", "prod", "staging">>

\* The environments of the loaded catalogue, as a set.
LoadedIds == { environments[i] : i \in 1..Len(environments) }

\* C19: for an id no configuration has defined, get_hosts returns the empty
\* sequence and get_suffix the empty string, and the call leaves the
\* suffixes, the environments and the cache as they were: the id gets no
\* entry.
C19_UnknownIdLookupsAreEmpty ==
  [][ ((Config_get_hosts \/ Config_get_suffix) /\ call'.env \notin known_ids) =>
        /\ call'.value = <<>>
        /\ UNCHANGED <<suffixes, environments, hosts_cache>>
        /\ call'.env \notin (DOMAIN hosts_cache') \cup (DOMAIN suffixes') \cup LoadedIds' ]_vars

\* C19 witness: the hosts of "qa" were asked of a loaded catalogue that
\* holds other environments.
C19_Witness ==
  /\ loaded
  /\ call.op = "get_hosts"
  /\ call.env = "qa"
  /\ call.value = <<>>
  /\ DOMAIN hosts_cache = {"prod"}

\* C20: after load() has returned, get_hosts returns for an environment
\* what it returned for it the first time, whatever has happened to the
\* configuration directory in between.
C20_HostsOfIsFixedAfterLoad ==
  (loaded /\ call.op = "get_hosts" /\ call.env \in DOMAIN first_hosts) =>
    call.value = first_hosts[call.env]

\* C21: whenever a host column has the focus and no callback is pending,
\* its cursor is a row of the column, and it is undefined only when the
\* column is empty.
C21_CursorIsValidInFocusedColumn ==
  (Running /\ Idle /\ HostFocus) =>
    IF FocusedItems(State) = <<>>
    THEN FocusedIndex(State) = None
    ELSE FocusedIndex(State) \in 0..(Len(FocusedItems(State)) - 1)

\* A highlight-move: cursor down or up with the focus on the environment list.
HighlightMove ==
  (action_cursor_down \/ action_cursor_up) /\ focused = "env"

\* C23: a highlight-move on the environment list leaves the focus and the
\* selected environment as they were, and afterwards the visible hosts are
\* all hosts of the highlighted environment, split into the two columns.
C23_HighlightMovePreviewsEnvironment ==
  [][ HighlightMove =>
        /\ focused' = "env"
        /\ selected_env' = selected_env
        /\ filtered_hosts' = FullHosts(HighlightedEnv')
        /\ left_items' = LeftOf(filtered_hosts')
        /\ right_items' = RightOf(filtered_hosts') ]_vars

\* C24: entering search mode from the environment list or from a host
\* column moves the focus to the search box, saves the highlighted row of
\* the environment list, and leaves the selected environment, the filter,
\* the visible hosts and both columns as they were.
C24_EnterSearchSavesRowAndKeepsView ==
  [][ (action_focus_search /\ focused \in {"env", "left", "right"}) =>
        /\ focused' = "search"
        /\ env_index # None => saved_env_index' = env_index
        /\ UNCHANGED <<selected_env, search_value, current_hosts, filtered_hosts,
                       left_items, right_items, env_index>> ]_vars

\* C24 witness: search was entered from a host column of the committed
\* environment prod, on row 1 of the environment list.
C24_Witness ==
  /\ last = "focus_search"
  /\ focused = "search"
  /\ saved_env_index = 1
  /\ env_index = 1
  /\ selected_env = "prod"
  /\ filtered_hosts = ProdHosts

\* Enter in the search box, through Input.Submitted or the app's binding.
CommitFromSearch ==
  (on_search_submitted \/ action_confirm) /\ focused = "search"

\* The callback that sets the cursor of a host column runs.
CursorCallback(op) ==
  RunCallback /\ Head(pending).op = op

\* C25: a commit in the search box with hosts visible moves the focus to the
\* left column and puts its cursor on row 0, keeping the filter, the visible
\* hosts and the selected environment; with no host visible it changes
\* nothing and the focus stays in the search box.
C25_CommitFromSearchEntersLeftColumn ==
  /\ [][ CommitFromSearch =>
          IF filtered_hosts # <<>>
          THEN /\ focused' = "left"
               /\ pending' = Append(pending, [op |-> "left_index", arg |-> 0])
               /\ UNCHANGED <<search_value, filtered_hosts, selected_env,
                              left_items, right_items>>
          ELSE /\ focused' = "search"
               /\ UNCHANGED NavigationState ]_vars
  /\ [][ (CursorCallback("left_index") /\ last = "search_submitted") =>
          /\ left_index' = 0
          /\ pending' = <<>>
          /\ UNCHANGED <<focused, search_value, filtered_hosts,
                         selected_env>> ]_vars

\* C25 witness: the filter "d" over prod, which two hosts pass, was committed
\* and the cursor is on row 0 of the left column.
C25_Witness ==
  /\ last = "search_submitted"
  /\ Idle
  /\ focused = "left"
  /\ left_index = 0
  /\ search_value = <<"d">>
  /\ selected_env = "prod"
  /\ Len(filtered_hosts) = 2

\* C26: move-right in the left column at row r enters the right column at
\* row min(r, rightLen - 1) when the right column has hosts and changes
\* nothing when it has none; the filter, the visible hosts and the selected
\* environment are kept in both cases.
C26_MoveRightClampsRow ==
  /\ [][ (action_go_right /\ focused = "left") =>
          LET r == IF left_index # None THEN left_index ELSE 0
          IN IF right_items # <<>>
             THEN /\ focused' = "right"
                  /\ pending' = Append(pending,
                                   [op |-> "right_index",
                                    arg |-> Min(r, Len(right_items) - 1)])
                  /\ UNCHANGED <<search_value, filtered_hosts, selected_env,
                                 left_items, right_items>>
             ELSE /\ focused' = "left"
                  /\ UNCHANGED NavigationState ]_vars
  /\ [][ (CursorCallback("right_index") /\ last = "go_right") =>
          /\ right_index' = Head(pending).arg
          /\ pending' = <<>>
          /\ UNCHANGED <<focused, search_value, filtered_hosts,
                         selected_env>> ]_vars

\* C26 witness: in staging (two hosts left, one right) move-right from row 1
\* of the left column ended on row 0 of the right column.
C26_Witness ==
  /\ last = "go_right"
  /\ Idle
  /\ focused = "right"
  /\ right_index = 0
  /\ selected_env = "staging"
  /\ Len(left_items) = 2
  /\ Len(right_items) = 1
  /\ path = "C"

\* C27: move-left in the right column at row r enters the left column at the
\* same row r, which the left column always has; the selected environment,
\* the filter and the visible hosts are kept and the focus does not go to
\* the environment list.
C27_MoveLeftKeepsRow ==
  /\ [](Len(right_items) <= Len(left_items))
  /\ [][ (action_back /\ focused = "right" /\ right_index # None) =>
          /\ focused' = "left"
          /\ right_index < Len(left_items)
          /\ pending' = Append(pending,
                           [op |-> "left_index", arg |-> right_index])
          /\ UNCHANGED <<search_value, filtered_hosts, selected_env,
                         left_items, right_items, env_index>> ]_vars
  /\ [][ (CursorCallback("left_index") /\ last = "back_right") =>
          /\ left_index' = Head(pending).arg
          /\ pending' = <<>>
          /\ UNCHANGED <<focused, search_value, filtered_hosts,
                         selected_env>> ]_vars

\* C27 witness: in prod move-left from row 1 of the right column ended on
\* row 1 of the left column.
C27_Witness ==
  /\ last = "back_right"
  /\ Idle
  /\ focused = "left"
  /\ left_index = 1
  /\ selected_env = "prod"
  /\ Len(right_items) = 2

\* C28: the right column never has the focus while it is empty.
C28_FocusedRightColumnHasHosts ==
  (Running /\ focused = "right") => right_items # <<>>

\* C29: while the environment list has the focus no environment is selected,
\* the filter is empty and the visible hosts are all the hosts of the
\* highlighted environment.
C29_EnvListFocusMeansBrowsing ==
  (Running /\ Idle /\ focused = "env") =>
    /\ selected_env = NoEnv
    /\ search_value = <<>>
    /\ filtered_hosts = FullHosts(HighlightedEnv)

\* The cancel input: Escape, handled by on_key in the search box and by
\* action_escape_back elsewhere.
Cancel == action_escape_back \/ on_key

\* The inputs by which a cancel leaves the search box or a host column.
CancelReturns == {"cancel_search", "escape_left", "escape_right"}

\* C30: on the main screen, after a failed load too, the focus is on the
\* environment list, the search box or a host column; a cancel on the
\* environment list ends the program without a target, and a cancel anywhere
\* else brings the focus to the environment list, so two cancels always end
\* the program without a target.
C30_TwoCancelsLeave ==
  /\ [](Running => focused \in {"env", "search", "left", "right"})
  /\ [](last # "escape_noop")
  /\ [][ (Cancel /\ focused = "env") =>
          (exited' /\ result' = NoResult) ]_vars
  /\ [][ (Cancel /\ focused # "env") =>
          (Running' /\ last' \in CancelReturns) ]_vars
  /\ []((Running /\ Idle /\ last \in CancelReturns) => focused = "env")
  /\ []((last = "escape_env" /\ exit_code # None) =>
          (exit_code = 0 /\ handoff = NoHandoff))

\* C30 witness: a cancel in the right column, with the hosts of prod shown,
\* brought the focus to the environment list.
C30_Witness ==
  /\ Running
  /\ Idle
  /\ last = "escape_right"
  /\ focused = "env"
  /\ view_env = "prod"

\* An input of the user is handled.
Input ==
  \/ action_cursor_down \/ action_cursor_up
  \/ on_env_selected \/ on_host_selected
  \/ on_input_changed \/ on_search_submitted \/ on_key
  \/ action_back \/ action_escape_back \/ action_focus_search
  \/ action_go_right \/ action_confirm \/ action_sftp
  \/ action_switch_panel \/ action_quit

\* C22: no input is handled while a cursor or focus assignment queued by an
\* earlier input is still waiting.
C22_InputsFindNoPendingAssignment ==
  [][ Input => Idle ]_vars

\* The entry under the cursor of the history screen.
ChosenEntry == history_items[history_index + 1]

\* The entries of a log that carry the target t.
EntriesFor(log, t) == { i \in DOMAIN log : log[i].target = t }

\* C31: selecting the entry (t, p) of the history screen ends the run with
\* the result (t, p), t being the stored string, puts that entry at the
\* front of the log and leaves one entry for t in the log.
C31_ReconnectKeepsTargetAndProtocol ==
  [][ HistoryScreen_on_list_view_selected =>
        /\ exited'
        /\ result' = ConnectionRequest(ChosenEntry.target, ChosenEntry.proto)
        /\ Head(history') = ChosenEntry
        /\ Cardinality(EntriesFor(history', ChosenEntry.target)) = 1 ]_vars

=============================================================================
